---- MODULE Spec2Model ----
(***************************************************************************)
(* The analytics service of cdn-system (analytics-service/main.py): the    *)
(* /track ingestion fan-out, the real-time snapshot, the derived rates of   *)
(* the read side and the retention cleanup, over three stores: the Counter  *)
(* Cache (Redis hashes analytics:<date> with a TTL), the Time-Series Sink   *)
(* (InfluxDB points) and the Historical Log Store (request_logs).           *)
(*                                                                         *)
(* Time is counted in whole days: now is the service clock, an event's      *)
(* timestamp is the day it falls on, and a TTL of 86400 * 7 seconds is 7.   *)
(* Every awaited store call is one step; a handler's code between two      *)
(* awaits runs in the step of the await that precedes it. Any store call    *)
(* may raise. ret holds what the step just taken returned to its caller;    *)
(* lastIncr, succ, failedDays and deletedDays record what has happened.     *)
(* Rates are integers, in hundredths of a percent (70.0 is 7000).           *)
(*                                                                         *)
(* Spec is the service with its tracking calls, clock and cleanup;          *)
(* SpecRates the derivations of the read side on drawn stores; SpecCleanup  *)
(* concurrent cleanup tasks on old buckets; SpecReads the read endpoints    *)
(* with store calls that raise.                                             *)
(***************************************************************************)
EXTENDS Integers, FiniteSets, Sequences, TLC

\* ---------------------------------------------------------------- bounds
MaxCalls == 2          \* tracking calls received in one run
MaxFails == 1          \* store calls that raise in one run
MaxNow == 8            \* the clock stops here
MaxTicks == 1          \* times the clock advances in one run
MaxDay == 1            \* event timestamps fall on days 0..MaxDay
MaxCleanups == 1       \* cleanup tasks scheduled in one run
MaxKeep == 1           \* days_to_keep is in 0..MaxKeep
MaxTotal == 25         \* SpecRates: the total_requests counter drawn is in 0..MaxTotal
MaxCount == 2          \* SpecRates: the other counters drawn are in 0..MaxCount
MaxRows == 2           \* SpecRates: request_logs holds at most MaxRows rows
MaxConcurrent == 2     \* SpecCleanup: cleanup tasks scheduled in one run

\* ------------------------------------------------------ program constants
TTL_DAYS == 7          \* redis_client.expire(cache_key, 86400 * 7)
SCAN_EXTRA == 30       \* range(days_to_keep + 30)
FALLBACK_DIV == 10     \* total_requests // 10

NoTTL == -1            \* the expiry of a key that has none (a key HINCRBY created)
Never == -1            \* the time of the last increment of a bucket never incremented
ZeroDivisionError == -2  \* stands for the exception a division by zero raises

Procs == {"t1", "t2"}  \* two tracking requests may be in flight at once
SlotNo(p) == IF p = "t1" THEN 1 ELSE 2
EventDays == 0 .. MaxDay
\* the TrackingData received: both casings of a hit, a miss, another outcome on another day
Events ==
  { [timestamp |-> 0, cache_status |-> "HIT", bytes_sent |-> 1],
    [timestamp |-> 0, cache_status |-> "hit", bytes_sent |-> 2],
    [timestamp |-> 0, cache_status |-> "MISS", bytes_sent |-> 1],
    [timestamp |-> MaxDay, cache_status |-> "BYPASS", bytes_sent |-> 2] }

\* the TrackingData of a slot that serves no request
NoData == CHOOSE e \in Events : TRUE

\* str.lower() on the cache_status values of the model
Lower(s) ==
  CASE s = "HIT" -> "hit"
    [] s = "hit" -> "hit"
    [] s = "Hit" -> "hit"
    [] s = "MISS" -> "miss"
    [] s = "miss" -> "miss"
    [] s = "BYPASS" -> "bypass"
    [] OTHER -> s

\* f"cache_{x}" for the lower-cased values
CachePrefix(x) ==
  CASE x = "hit" -> "cache_hit"
    [] x = "miss" -> "cache_miss"
    [] x = "bypass" -> "cache_bypass"
    [] OTHER -> "cache_other"

\* f'cache_{data.cache_status.lower()}'
CacheField(cache_status) == CachePrefix(Lower(cache_status))

\* f'status_{status_code}' with status_code = 200
StatusField == "status_200"

VARIABLES
  now,          \* the clock, in days
  redis,        \* Counter Cache: day -> hash (field -> integer); an absent key is the empty hash
  expireAt,     \* Counter Cache: day -> the day the key expires, or NoTTL
  influx,       \* Time-Series Sink: event -> number of points appended for it
  request_logs, \* Historical Log Store: the committed rows of request_logs
  txn,          \* the rows deleted by the open transaction of the shared connection
  db_connection, \* self._db_connection: "None" until the first connect, then "open"
  pc,           \* tracking request -> the store call it is about to make
  data,         \* tracking request -> its TrackingData
  ops,          \* tracking request -> the store calls it has completed
  cl,           \* cleanup task -> its position, arguments and locals, and what it did
  ret,          \* what the step just taken returned to its caller, if it ended a call
  lastIncr,     \* day -> the time of the last hincrby on its bucket, or Never
  succ,         \* event -> number of tracking calls that returned success for it
  failedDays,   \* days of the events whose tracking call returned 500
  deletedDays,  \* days whose bucket was removed (expiry or cleanup) while it existed
  ncalls,       \* tracking calls received
  nfails,       \* store calls that raised
  ncleanups,    \* cleanup tasks scheduled
  nticks        \* times the clock advanced

vars == <<now, redis, expireAt, influx, request_logs, txn, db_connection, pc, data, ops, cl, ret,
          lastIncr, succ, failedDays, deletedDays, ncalls, nfails, ncleanups, nticks>>

stores == <<redis, expireAt, influx, request_logs, txn>>
history == <<lastIncr, succ, failedDays, deletedDays>>
budgets == <<ncalls, nfails, ncleanups, nticks>>
tracking == <<pc, data, ops>>

\* faulty variant of BucketDay: the bucket of the arrival date, datetime.now()
BucketDayOfArrival(e) == now

\* today = datetime.fromtimestamp(data.timestamp).strftime('%Y-%m-%d')
BucketDay(e) == e.timestamp

\* ----------------------------------------------------------- Redis hashes
EmptyHash == [f \in {} |-> 0]

\* result.get(f, 0) on the dict built from HGETALL
HGet(h, f) == IF f \in DOMAIN h THEN h[f] ELSE 0

\* faulty variant of HIncrBy: HSET, the field is overwritten with n
HSetInsteadOfIncr(h, f, n) == [x \in (DOMAIN h) \cup {f} |-> IF x = f THEN n ELSE h[x]]

\* HINCRBY key f n: creates the field (and the key) when absent; atomic at the store
HIncrBy(h, f, n) ==
  [x \in (DOMAIN h) \cup {f} |-> IF x = f THEN HGet(h, f) + n ELSE h[x]]

KeyExists(d) == d \in EventDays /\ redis[d] # EmptyHash

\* HGETALL analytics:<d>
HGetAll(d) == IF d \in EventDays THEN redis[d] ELSE EmptyHash

\* EXPIRE key ttl: sets the expiry of an existing key, does nothing for an absent one
RedisExpire(exp, d, exists, t) == IF exists THEN [exp EXCEPT ![d] = t + TTL_DAYS] ELSE exp

\* ------------------------------------------------------------------ rates
\* round(x, 2) of x = n / d * 100, as an integer number of hundredths:
\* the nearest, and the even one on a tie (Python's round on an exact tie)
Round2Pct(n, d) ==
  LET num == n * 10000
      q == num \div d
      r == num % d
  IN  IF 2 * r > d THEN q + 1
      ELSE IF 2 * r < d THEN q
      ELSE IF q % 2 = 0 THEN q ELSE q + 1

\* round((n / d) * 100, 2): raises ZeroDivisionError when d is 0
RatePct(n, d) == IF d = 0 THEN ZeroDivisionError ELSE Round2Pct(n, d)

\* cache_hit_rate = 0; if total_requests > 0: round((cache_hits / total_requests) * 100, 2)
HitRate(cache_hits, total_requests) ==
  IF total_requests > 0 THEN RatePct(cache_hits, total_requests) ELSE 0

Max(a, b) == IF a >= b THEN a ELSE b

\* if cache_hits == 0 and cache_misses == 0 and total_requests > 0
UseFallback(cache_hits, cache_misses, total_requests) ==
  cache_hits = 0 /\ cache_misses = 0 /\ total_requests > 0

\* faulty variant of EstimatedMisses: no floor of 1
EstimatedMissesNoFloor(total_requests) == total_requests \div FALLBACK_DIV

\* cache_misses = max(1, total_requests // 10)
EstimatedMisses(total_requests) == Max(1, total_requests \div FALLBACK_DIV)

\* cache_hits = total_requests - cache_misses
EstimatedHits(total_requests, cache_misses) == total_requests - cache_misses

\* the fields k with k.startswith('status_')
StatusFields == {StatusField}

\* faulty variant of CacheHits: only the upper-case counter is read
CacheHitsUpperOnly(result) == HGet(result, "cache_HIT")

\* result.get('cache_hit', 0) + result.get('cache_HIT', 0)
CacheHits(result) == HGet(result, "cache_hit") + HGet(result, "cache_HIT")

\* result.get('cache_miss', 0) + result.get('cache_MISS', 0)
CacheMisses(result) == HGet(result, "cache_miss") + HGet(result, "cache_MISS")

\* AnalyticsService.get_realtime_metrics on the hash read by HGETALL
RealtimeMetrics(metrics) ==
  LET total_requests == HGet(metrics, "total_requests")
      fb == UseFallback(CacheHits(metrics), CacheMisses(metrics), total_requests)
      cache_misses == IF fb THEN EstimatedMisses(total_requests) ELSE CacheMisses(metrics)
      cache_hits == IF fb THEN EstimatedHits(total_requests, cache_misses)
                    ELSE CacheHits(metrics)
  IN  [total_requests |-> total_requests,
       cache_hits |-> cache_hits,
       cache_misses |-> cache_misses,
       cache_hit_rate |-> HitRate(cache_hits, total_requests),
       status_codes |-> [k \in (DOMAIN metrics) \cap StatusFields |-> metrics[k]],
       bytes_served |-> HGet(metrics, "total_bytes")]

\* ----------------------------------------------------------- request_logs
\* the rows of the log store when the service starts: one per event day
InitLogs ==
  {[id |-> d + 1, day |-> d, cache_status |-> "HIT", status_code |-> 200] : d \in EventDays}

\* two cleanup tasks may be in flight at once (BackgroundTasks of two requests)
CleanTasks == {"c1", "c2"}
TaskNo(c) == IF c = "c1" THEN 1 ELSE 2

\* a cleanup task that is not running. Besides the locals of cleanup_old_data it records
\* what the run did: t0 the clock when it started, rows the rows its DELETE removed, keys
\* the dates whose key it asked Redis to delete, removed the dates whose bucket it removed
ClIdle == [pc |-> "idle", days_to_keep |-> 0, cutoff |-> 0, i |-> 0,
           deleted_logs |-> 0, deleted_keys |-> 0,
           t0 |-> 0, rows |-> {}, keys |-> {}, removed |-> {}]

\* no call ended in the step just taken
NoRet == [op |-> "none"]

\* ------------------------------------------------------------------- Init
Init ==
  /\ now = 0
  /\ redis = [d \in EventDays |-> EmptyHash]
  /\ expireAt = [d \in EventDays |-> NoTTL]
  /\ influx = [e \in Events |-> 0]
  /\ request_logs = InitLogs
  /\ txn = {}
  /\ db_connection = "None"
  /\ pc = [p \in Procs |-> "idle"]
  /\ data = [p \in Procs |-> NoData]
  /\ ops = [p \in Procs |-> {}]
  /\ cl = [c \in CleanTasks |-> ClIdle]
  /\ ret = NoRet
  /\ lastIncr = [d \in EventDays |-> Never]
  /\ succ = [e \in Events |-> 0]
  /\ failedDays = {}
  /\ deletedDays = {}
  /\ ncalls = 0
  /\ nfails = 0
  /\ ncleanups = 0
  /\ nticks = 0

\* ------------------------------------------------------------ track_request
\* the order of the store calls of the handler
NextPc(step) ==
  CASE step = "write" -> "total_requests"
    [] step = "total_requests" -> "cache"
    [] step = "cache" -> "total_bytes"
    [] step = "total_bytes" -> "status"
    [] step = "status" -> "expire"
    [] step = "expire" -> "idle"

\* faulty variant of FailPc: a failed time-series write is logged and the handler goes on
FailPcContinueAfterWrite(step) == IF step = "write" THEN NextPc("write") ELSE "idle"

\* the except branch ends the call, whichever store call raised
FailPc(step) == "idle"

\* faulty variant of FailStatus: a failed Counter Cache call still answers success
FailStatusSoftOnCache(step) == IF step = "write" THEN "500" ELSE "success"

\* raise HTTPException(status_code=500, detail=str(e))
FailStatus(step) == "500"

AllOps == {"write", "total_requests", "cache", "total_bytes", "status", "expire"}

IncrSteps == {"total_requests", "cache", "total_bytes", "status"}

\* the field of each hincrby of the handler
IncrField(step, e) ==
  CASE step = "total_requests" -> "total_requests"
    [] step = "cache" -> CacheField(e.cache_status)
    [] step = "total_bytes" -> "total_bytes"
    [] step = "status" -> StatusField

\* faulty variant of IncrAmount: every hincrby adds bytes_sent
IncrAmountAlwaysBytes(step, e) == e.bytes_sent

\* the amount of each hincrby of the handler
IncrAmount(step, e) == IF step = "total_bytes" THEN e.bytes_sent ELSE 1

\* what POST /track answers: the status, and (for the record) the store calls completed
TrackRet(e, status, done) == [op |-> "track", event |-> e, status |-> status, ops |-> done]

\* a request is served in the first free slot (the slots are interchangeable)
FreeSlot(p) == pc[p] = "idle" /\ \A q \in Procs : pc[q] = "idle" => SlotNo(p) <= SlotNo(q)

\* a store call of the handler raised at `step`, having completed `done`: the except
\* branch runs and the call ends there
TrackFailed(p, e, step, done) ==
  /\ nfails < MaxFails
  /\ nfails' = nfails + 1
  /\ pc' = [pc EXCEPT ![p] = FailPc(step)]
  /\ data' = [data EXCEPT ![p] = IF FailPc(step) = "idle" THEN NoData ELSE e]
  /\ ops' = [ops EXCEPT ![p] = IF FailPc(step) = "idle" THEN {} ELSE done]
  /\ ret' = IF FailPc(step) = "idle" THEN TrackRet(e, FailStatus(step), done) ELSE NoRet
  /\ failedDays' = failedDays \cup {BucketDay(e)}

\* POST /track arrives; the handler builds the point and writes it (a blocking call)
TrackWrite(p, e) ==
  /\ FreeSlot(p)
  /\ ncalls < MaxCalls
  /\ ncalls' = ncalls + 1
  /\ influx' = [influx EXCEPT ![e] = @ + 1]
  /\ pc' = [pc EXCEPT ![p] = NextPc("write")]
  /\ data' = [data EXCEPT ![p] = e]
  /\ ops' = [ops EXCEPT ![p] = {"write"}]
  /\ ret' = NoRet
  /\ UNCHANGED <<now, redis, expireAt, request_logs, txn, cl, db_connection, history,
                 nfails, ncleanups, nticks>>

\* POST /track arrives and write_api.write raises
TrackWriteFails(p, e) ==
  /\ FreeSlot(p)
  /\ ncalls < MaxCalls
  /\ ncalls' = ncalls + 1
  /\ TrackFailed(p, e, "write", {})
  /\ UNCHANGED <<now, stores, cl, db_connection, lastIncr, succ, deletedDays, ncleanups, nticks>>

\* one awaited redis_client.hincrby(cache_key, field, amount)
TrackIncr(p) ==
  /\ pc[p] \in IncrSteps
  /\ LET e == data[p]
         d == BucketDay(e)
     IN  /\ redis' = [redis EXCEPT ![d] = HIncrBy(@, IncrField(pc[p], e), IncrAmount(pc[p], e))]
         /\ lastIncr' = [lastIncr EXCEPT ![d] = now]
  /\ ops' = [ops EXCEPT ![p] = @ \cup {pc[p]}]
  /\ pc' = [pc EXCEPT ![p] = NextPc(pc[p])]
  /\ ret' = NoRet
  /\ UNCHANGED <<now, expireAt, influx, request_logs, txn, data, cl, db_connection, succ, failedDays,
                 deletedDays, budgets>>

\* await redis_client.expire(cache_key, 86400 * 7), then return {"status": "success"}
TrackExpire(p) ==
  /\ pc[p] = "expire"
  /\ LET d == BucketDay(data[p])
     IN  expireAt' = RedisExpire(expireAt, d, KeyExists(d), now)
  /\ pc' = [pc EXCEPT ![p] = NextPc("expire")]
  /\ data' = [data EXCEPT ![p] = NoData]
  /\ ops' = [ops EXCEPT ![p] = {}]
  /\ ret' = TrackRet(data[p], "success", ops[p] \cup {"expire"})
  /\ succ' = [succ EXCEPT ![data[p]] = @ + 1]
  /\ UNCHANGED <<now, redis, influx, request_logs, txn, cl, db_connection, lastIncr, failedDays,
                 deletedDays, budgets>>

\* an awaited Counter Cache call of the handler raises
TrackRedisFails(p) ==
  /\ pc[p] \in IncrSteps \cup {"expire"}
  /\ TrackFailed(p, data[p], pc[p], ops[p])
  /\ UNCHANGED <<now, stores, cl, db_connection, lastIncr, succ, deletedDays, ncalls, ncleanups, nticks>>

\* ------------------------------------------------------- real-time snapshot
\* GET /metrics/realtime: one HGETALL of today's bucket, then the derivation
GetRealtimeMetrics ==
  /\ ret' = [op |-> "realtime", day |-> now, metrics |-> HGetAll(now),
             out |-> RealtimeMetrics(HGetAll(now))]
  /\ UNCHANGED <<now, stores, tracking, cl, db_connection, history, budgets>>

\* ------------------------------------------------------------------ clock
\* the keys whose expiry has come at time t
Expired(t) == {d \in EventDays : expireAt[d] # NoTTL /\ expireAt[d] <= t}

TickSteps == {1, TTL_DAYS}

\* k days pass; Redis removes the keys whose expiry has come, all fields together
Tick(k) ==
  /\ now + k <= MaxNow
  /\ nticks < MaxTicks
  /\ nticks' = nticks + 1
  /\ now' = now + k
  /\ redis' = [d \in EventDays |-> IF d \in Expired(now + k) THEN EmptyHash ELSE redis[d]]
  /\ expireAt' = [d \in EventDays |-> IF d \in Expired(now + k) THEN NoTTL ELSE expireAt[d]]
  /\ deletedDays' = deletedDays \cup Expired(now + k)
  /\ ret' = NoRet
  /\ UNCHANGED <<influx, request_logs, txn, tracking, cl, db_connection, lastIncr, succ, failedDays,
                 ncalls, nfails, ncleanups>>

\* ------------------------------------------------------- cleanup_old_data
\* DELETE FROM request_logs WHERE timestamp < NOW() - INTERVAL 'D days'
OldRows(rows, t, days_to_keep) == {r \in rows : r.day < t - days_to_keep}

\* the rows the shared connection sees: committed, less those its open transaction deleted
Visible == request_logs \ txn

\* old_date = cutoff_date - timedelta(days=i)
OldDate(cutoff, i) == cutoff - i

\* faulty variant of ScanLen: the loop covers the retention window only, range(days_to_keep)
ScanLenWindowOnly(days_to_keep) == days_to_keep

\* range(days_to_keep + 30)
ScanLen(days_to_keep) == days_to_keep + SCAN_EXTRA

\* the next loop index at or after i whose key can exist in the model; the deletions of
\* the indices in between find no key and are taken together with this one
NextIdx(cutoff, days_to_keep, i) ==
  LET js == {j \in i .. (ScanLen(days_to_keep) - 1) : OldDate(cutoff, j) \in EventDays}
  IN  IF js = {} THEN ScanLen(days_to_keep)
      ELSE CHOOSE j \in js : \A k \in js : j <= k

Keeps == 0 .. MaxKeep

\* the dates of the loop indices i .. j - 1
DatesOf(cutoff, i, j) == {OldDate(cutoff, k) : k \in i .. (j - 1)}

\* a task runs in the first free slot (the slots are interchangeable)
FreeTask(c) ==
  cl[c].pc = "idle" /\ \A q \in CleanTasks : cl[q].pc = "idle" => TaskNo(c) <= TaskNo(q)

\* what the caller of cleanup_old_data gets: the counts returned or the exception raised,
\* with what the run did
CleanupRet(c, result) ==
  [op |-> "cleanup", result |-> result, days_to_keep |-> cl[c].days_to_keep,
   t0 |-> cl[c].t0, deleted_logs |-> cl[c].deleted_logs, deleted_keys |-> cl[c].deleted_keys,
   rows |-> cl[c].rows, keys |-> cl[c].keys, removed |-> cl[c].removed]

\* except: conn.rollback(); raise. The rollback ends the open transaction of the shared
\* connection, whichever task's statements it holds
CleanupRaise(c) ==
  /\ nfails < MaxFails
  /\ nfails' = nfails + 1
  /\ txn' = {}
  /\ cl' = [cl EXCEPT ![c] = ClIdle]
  /\ ret' = CleanupRet(c, "raised")

\* the task starts and psycopg2.connect raises: get_db_connection is called before the
\* try block, the exception leaves cleanup_old_data with no rollback
CleanupConnectFails(c, days_to_keep) ==
  /\ FreeTask(c)
  /\ db_connection = "None"
  /\ nfails < MaxFails
  /\ nfails' = nfails + 1
  /\ ncleanups' = ncleanups + 1
  /\ ret' = [CleanupRet(c, "raised") EXCEPT !.days_to_keep = days_to_keep, !.t0 = now]
  /\ UNCHANGED <<now, stores, db_connection, tracking, cl, history, ncalls, nticks>>

\* the task starts: cursor.execute(DELETE ...), rowcount, cutoff_date (no await in between)
CleanupStart(c, days_to_keep) ==
  /\ FreeTask(c)
  /\ ncleanups' = ncleanups + 1
  /\ db_connection' = "open"
  /\ LET old == OldRows(Visible, now, days_to_keep)
         cutoff == now - days_to_keep
         i0 == NextIdx(cutoff, days_to_keep, 0)
     IN  /\ txn' = txn \cup old
         /\ cl' = [cl EXCEPT ![c] =
                     [pc |-> IF i0 < ScanLen(days_to_keep) THEN "scan" ELSE "commit",
                      days_to_keep |-> days_to_keep, cutoff |-> cutoff, i |-> i0,
                      deleted_logs |-> Cardinality(old), deleted_keys |-> 0,
                      t0 |-> now, rows |-> old, keys |-> DatesOf(cutoff, 0, i0),
                      removed |-> {}]]
  /\ ret' = NoRet
  /\ UNCHANGED <<now, redis, expireAt, influx, request_logs, tracking, history,
                 ncalls, nfails, nticks>>

\* the task starts and cursor.execute raises
CleanupExecuteFails(c, days_to_keep) ==
  /\ FreeTask(c)
  /\ ncleanups' = ncleanups + 1
  /\ db_connection' = "open"
  /\ nfails < MaxFails
  /\ nfails' = nfails + 1
  /\ txn' = {}
  /\ ret' = [CleanupRet(c, "raised") EXCEPT !.days_to_keep = days_to_keep, !.t0 = now]
  /\ UNCHANGED <<now, redis, expireAt, influx, request_logs, tracking, cl, history,
                 ncalls, nticks>>

\* if await redis_client.delete(key): deleted_keys += 1
CountDeleted(deleted_keys, hit) == IF hit THEN deleted_keys + 1 ELSE deleted_keys

\* one awaited redis_client.delete(key) of the loop
CleanupDelete(c) ==
  /\ cl[c].pc = "scan"
  /\ LET d == OldDate(cl[c].cutoff, cl[c].i)
         hit == KeyExists(d)
         i1 == NextIdx(cl[c].cutoff, cl[c].days_to_keep, cl[c].i + 1)
     IN  /\ redis' = [redis EXCEPT ![d] = EmptyHash]
         /\ expireAt' = [expireAt EXCEPT ![d] = NoTTL]
         /\ deletedDays' = IF hit THEN deletedDays \cup {d} ELSE deletedDays
         /\ cl' = [cl EXCEPT ![c].i = i1,
                             ![c].deleted_keys = CountDeleted(@, hit),
                             ![c].keys = @ \cup DatesOf(cl[c].cutoff, cl[c].i, i1),
                             ![c].removed = IF hit THEN @ \cup {d} ELSE @,
                             ![c].pc = IF i1 < ScanLen(cl[c].days_to_keep)
                                       THEN "scan" ELSE "commit"]
  /\ ret' = NoRet
  /\ UNCHANGED <<now, influx, request_logs, txn, db_connection, tracking, lastIncr, succ,
                 failedDays, budgets>>

\* conn.commit() and the return of the counts. The commit makes every deletion of the open
\* transaction of the shared connection permanent
CleanupCommit(c) ==
  /\ cl[c].pc = "commit"
  /\ request_logs' = request_logs \ txn
  /\ txn' = {}
  /\ cl' = [cl EXCEPT ![c] = ClIdle]
  /\ ret' = CleanupRet(c, "done")
  /\ UNCHANGED <<now, redis, expireAt, influx, db_connection, tracking, history, budgets>>

\* a redis_client.delete of the loop, or conn.commit(), raises
CleanupFails(c) ==
  /\ cl[c].pc \in {"scan", "commit"}
  /\ CleanupRaise(c)
  /\ UNCHANGED <<now, redis, expireAt, influx, request_logs, db_connection, tracking,
                 history, ncalls, ncleanups, nticks>>

\* ------------------------------------------------------ generate_daily_report
\* the rows WHERE DATE(timestamp) = date, read through the shared connection
RowsOn(date) == {r \in Visible : r.day = date}

\* stats_query: the COUNT aggregates of the one result row (the columns of the model)
Stats(date) ==
  [total_requests |-> Cardinality(RowsOn(date)),
   cache_hits |-> Cardinality({r \in RowsOn(date) : r.cache_status = "HIT"}),
   cache_misses |-> Cardinality({r \in RowsOn(date) : r.cache_status = "MISS"}),
   success_requests |->
     Cardinality({r \in RowsOn(date) : r.status_code >= 200 /\ r.status_code < 300}),
   error_requests |-> Cardinality({r \in RowsOn(date) : r.status_code >= 400})]

\* status_query: the histogram of status codes of the date
StatusHistogram(date) ==
  [c \in {r.status_code : r \in RowsOn(date)} |->
     Cardinality({r \in RowsOn(date) : r.status_code = c})]

\* cache_hit_rate = 0; if total_cache_requests > 0: round(hits / total_cache_requests * 100, 2)
ReportHitRate(cache_hits, total_cache_requests) ==
  IF total_cache_requests > 0 THEN RatePct(cache_hits, total_cache_requests) ELSE 0

\* faulty variant of ErrorRate: no guard on the denominator
ErrorRateUnguarded(error_requests, total_requests) == RatePct(error_requests, total_requests)

\* round(errors / total * 100, 2) if stats['total_requests'] > 0 else 0
ErrorRate(error_requests, total_requests) ==
  IF total_requests > 0 THEN RatePct(error_requests, total_requests) ELSE 0

\* AnalyticsService.generate_daily_report: the report, or {'date', 'error'} when the
\* try block raised
DailyReport(date) ==
  LET stats == Stats(date)
      cache_hit_rate == ReportHitRate(stats.cache_hits, stats.cache_hits + stats.cache_misses)
      error_rate == ErrorRate(stats.error_requests, stats.total_requests)
  IN  IF cache_hit_rate = ZeroDivisionError \/ error_rate = ZeroDivisionError
      THEN [date |-> date, error |-> "division by zero"]
      ELSE [date |-> date,
            summary |-> [total_requests |-> stats.total_requests,
                         cache_hits |-> stats.cache_hits,
                         cache_misses |-> stats.cache_misses,
                         success_requests |-> stats.success_requests,
                         error_requests |-> stats.error_requests,
                         cache_hit_rate |-> cache_hit_rate,
                         error_rate |-> error_rate],
            status_codes |-> StatusHistogram(date)]

\* GET /reports/daily/{date} with a date that parses
GenerateDailyReport(date) ==
  /\ ret' = [op |-> "daily_report", report |-> DailyReport(date)]
  /\ db_connection' = "open"
  /\ UNCHANGED <<now, stores, tracking, cl, history, budgets>>

\* ------------------------------------------------------------ get_top_content
\* the per-row rate: 0, or round((row['cache_hits'] / total_requests) * 100, 2)
ContentHitRate(cache_hits, request_count) ==
  IF request_count > 0 THEN RatePct(cache_hits, request_count) ELSE 0

\* the rows the cursor may return: the aggregates of one file
ContentRows ==
  {r \in [request_count : 0 .. MaxCount, cache_hits : 0 .. MaxCount,
          cache_misses : 0 .. MaxCount] : r.cache_hits + r.cache_misses <= r.request_count}

\* AnalyticsService.get_top_content on the fetched rows: [] when the try block raised
TopContent(results) ==
  LET rates == [k \in DOMAIN results |->
                  ContentHitRate(results[k].cache_hits, results[k].request_count)]
  IN  IF \E k \in DOMAIN results : rates[k] = ZeroDivisionError
      THEN <<>>
      ELSE [k \in DOMAIN results |->
              [request_count |-> results[k].request_count,
               cache_hits |-> results[k].cache_hits,
               cache_misses |-> results[k].cache_misses,
               cache_hit_rate |-> rates[k]]]

\* GET /content/top: the query returned `results`
GetTopContent(results) ==
  /\ ret' = [op |-> "top_content", results |-> results, content |-> TopContent(results)]
  /\ db_connection' = "open"
  /\ UNCHANGED <<now, stores, tracking, cl, history, budgets>>

\* ------------------------------------------------- GET /reports/daily/{date}
\* a date string is the sequence of its characters
Digits == {"0", "1", "2", "3", "4", "5", "6", "7", "8", "9"}

DigitVal(c) ==
  CASE c = "0" -> 0 [] c = "1" -> 1 [] c = "2" -> 2 [] c = "3" -> 3 [] c = "4" -> 4
    [] c = "5" -> 5 [] c = "6" -> 6 [] c = "7" -> 7 [] c = "8" -> 8 [] c = "9" -> 9
    [] OTHER -> -1

\* the directive %m: 1[0-2] | 0[1-9] | [1-9]; -1 when the text does not match
MonthVal(t) ==
  IF Len(t) = 2 /\ t[1] = "1" /\ t[2] \in {"0", "1", "2"} THEN 10 + DigitVal(t[2])
  ELSE IF Len(t) = 2 /\ t[1] = "0" /\ t[2] \in Digits \ {"0"} THEN DigitVal(t[2])
  ELSE IF Len(t) = 1 /\ t[1] \in Digits \ {"0"} THEN DigitVal(t[1])
  ELSE -1

\* the directive %d: 3[01] | [12]\d | 0[1-9] | [1-9] | ' '[1-9]; -1 when the text does not match
DayVal(t) ==
  IF Len(t) = 2 /\ t[1] = "3" /\ t[2] \in {"0", "1"} THEN 30 + DigitVal(t[2])
  ELSE IF Len(t) = 2 /\ t[1] \in {"1", "2"} /\ t[2] \in Digits
    THEN 10 * DigitVal(t[1]) + DigitVal(t[2])
  ELSE IF Len(t) = 2 /\ t[1] \in {"0", " "} /\ t[2] \in Digits \ {"0"} THEN DigitVal(t[2])
  ELSE IF Len(t) = 1 /\ t[1] \in Digits \ {"0"} THEN DigitVal(t[1])
  ELSE -1

\* the directive %Y: \d\d\d\d
YearVal(t) ==
  IF Len(t) = 4 /\ \A k \in 1 .. 4 : t[k] \in Digits
  THEN 1000 * DigitVal(t[1]) + 100 * DigitVal(t[2]) + 10 * DigitVal(t[3]) + DigitVal(t[4])
  ELSE -1

IsLeap(y) == y % 4 = 0 /\ (y % 100 # 0 \/ y % 400 = 0)

DaysInMonth(y, m) ==
  CASE m \in {4, 6, 9, 11} -> 30
    [] m = 2 -> (IF IsLeap(y) THEN 29 ELSE 28)
    [] OTHER -> 31

ValueError == [ok |-> FALSE]

\* faulty variant of Strptime: the fields are read as numbers, whatever their range
StrptimeNoRangeCheck(s) ==
  IF Len(s) = 10 /\ s[5] = "-" /\ s[8] = "-"
     /\ \A k \in {1, 2, 3, 4, 6, 7, 9, 10} : s[k] \in Digits
  THEN [ok |-> TRUE, year |-> YearVal(SubSeq(s, 1, 4)),
        month |-> 10 * DigitVal(s[6]) + DigitVal(s[7]),
        day |-> 10 * DigitVal(s[9]) + DigitVal(s[10])]
  ELSE ValueError

\* datetime.strptime(date, '%Y-%m-%d'): the whole string must match year-month-day and
\* the fields must make a date (year >= 1, day within the month); ValueError otherwise
Strptime(s) ==
  LET n == Len(s)
      seps == {k \in 7 .. 8 : k < n /\ s[k] = "-"}
  IN  IF n < 8 \/ n > 10 \/ s[5] # "-" \/ seps = {} THEN ValueError
      ELSE LET p == CHOOSE k \in seps : \A j \in seps : k <= j
               y == YearVal(SubSeq(s, 1, 4))
               m == MonthVal(SubSeq(s, 6, p - 1))
               d == DayVal(SubSeq(s, p + 1, n))
           IN  IF y < 1 \/ m < 1 \/ d < 1 THEN ValueError
               ELSE IF d > DaysInMonth(y, m) THEN ValueError
               ELSE [ok |-> TRUE, year |-> y, month |-> m, day |-> d]

LeapsBefore(y) == ((y - 1) \div 4) - ((y - 1) \div 100) + ((y - 1) \div 400)

RECURSIVE DaysBeforeMonth(_, _)
DaysBeforeMonth(y, m) ==
  IF m <= 1 THEN 0 ELSE DaysInMonth(y, m - 1) + DaysBeforeMonth(y, m - 1)

\* the day of the model a date falls on: DATE(timestamp) = %s compares calendar dates, and
\* day 0 of the model is 2024-01-01
DayOfDate(t) ==
  365 * (t.year - 2024) + (LeapsBefore(t.year) - LeapsBefore(2024))
    + DaysBeforeMonth(t.year, t.month) + (t.day - 1)

\* the date parameters received
DateStrings ==
  { <<"2", "0", "2", "4", "-", "0", "1", "-", "0", "1">>,
    <<"2", "0", "2", "4", "-", "0", "1", "-", "0", "2">>,
    <<"2", "0", "2", "4", "-", "1", "-", "2">>,
    <<"2", "0", "2", "4", "-", "0", "2", "-", "2", "9">>,
    <<"2", "0", "2", "4", "-", "1", "3", "-", "4", "0">>,
    <<"2", "0", "2", "4", "-", "0", "2", "-", "3", "0">>,
    <<"2", "0", "2", "3", "-", "0", "2", "-", "2", "9">>,
    <<"2", "0", "2", "4", "0", "1", "0", "1">>,
    <<"0", "1", "/", "0", "1", "/", "2", "0", "2", "4">>,
    <<"t", "o", "d", "a", "y">> }

\* the store calls of generate_daily_report that may raise
QueryFailures == {"stats_query", "files_query", "status_query"}
ReportFailures == {"none", "connect"} \cup QueryFailures

\* AnalyticsService.generate_daily_report(date) when the store call f raises (none of
\* them when f is "none"): the report, or {'date': date, 'error': str(e)} from the except
\* branch
DailyReportOf(s, f) ==
  IF f \in QueryFailures THEN [date |-> s, error |-> f]
  ELSE [DailyReport(DayOfDate(Strptime(s))) EXCEPT !.date = s]

\* GET /reports/daily/{date}: the date is validated, then the report is generated; f is
\* the store call of generate_daily_report that raises. psycopg2.connect is called by
\* get_db_connection before the try block of generate_daily_report
GetDailyReport(s, f) ==
  /\ f = "connect" => db_connection = "None"
  /\ f # "none" => (Strptime(s).ok /\ nfails < MaxFails)
  /\ nfails' = IF f = "none" THEN nfails ELSE nfails + 1
  /\ db_connection' = IF Strptime(s).ok /\ f # "connect" THEN "open" ELSE db_connection
  /\ ret' = IF ~Strptime(s).ok
            THEN [op |-> "get_daily_report", date |-> s, engine |-> FALSE, failure |-> f,
                  raised |-> FALSE, status |-> 400]
            ELSE IF f = "connect"
            THEN [op |-> "get_daily_report", date |-> s, engine |-> TRUE, failure |-> f,
                  raised |-> TRUE, status |-> 500]
            ELSE [op |-> "get_daily_report", date |-> s, engine |-> TRUE, failure |-> f,
                  raised |-> FALSE, status |-> 200, report |-> DailyReportOf(s, f)]
  /\ UNCHANGED <<now, stores, tracking, cl, history, ncalls, ncleanups, nticks>>

\* ------------------------------------------------- the other read endpoints
\* what a read endpoint answers: the result of the engine operation (status 200), or 500
\* when the operation raised to the endpoint
ReadRet(name, f, raised, result) ==
  [op |-> "read", name |-> name, failure |-> f, raised |-> raised,
   status |-> IF raised THEN 500 ELSE 200, result |-> result]

\* GET /metrics/realtime when redis_client.hgetall raises: get_realtime_metrics has no try
\* block, the exception reaches the endpoint
GetRealtimeMetricsFails ==
  /\ nfails < MaxFails
  /\ nfails' = nfails + 1
  /\ ret' = ReadRet("realtime", "hgetall", TRUE, <<>>)
  /\ UNCHANGED <<now, stores, db_connection, tracking, cl, history, ncalls, ncleanups, nticks>>

\* GET /metrics/timeseries: the query runs inside the try block of get_time_series_data,
\* which returns [] when it raises. The records are those of the points in the sink (the
\* range and the hourly windows are not modelled)
GetTimeseriesMetrics(f) ==
  /\ f # "none" => nfails < MaxFails
  /\ nfails' = IF f = "none" THEN nfails ELSE nfails + 1
  /\ ret' = ReadRet("timeseries", f, FALSE,
                    IF f = "none" THEN {e \in Events : influx[e] > 0} ELSE {})
  /\ UNCHANGED <<now, stores, db_connection, tracking, cl, history, ncalls, ncleanups, nticks>>

\* an engine operation on the log store: conn = self.get_db_connection() before its try
\* block, the query inside it; `result` when nothing raises, `degraded` when the query does
DbRead(name, f, result, degraded) ==
  /\ f = "connect" => db_connection = "None"
  /\ f # "none" => nfails < MaxFails
  /\ nfails' = IF f = "none" THEN nfails ELSE nfails + 1
  /\ db_connection' = IF f = "connect" THEN db_connection ELSE "open"
  /\ ret' = IF f = "connect" THEN ReadRet(name, f, TRUE, <<>>)
            ELSE IF f = "query" THEN ReadRet(name, f, FALSE, degraded)
            ELSE ReadRet(name, f, FALSE, result)
  /\ UNCHANGED <<now, stores, tracking, cl, history, ncalls, ncleanups, nticks>>

DbFailures == {"none", "connect", "query"}

\* GET /metrics/geography: the rows of the model carry no country_code, the query
\* (country_code IS NOT NULL) selects none of them
GetGeographicMetrics(f) ==
  DbRead("geography", f, [countries |-> <<>>, total_countries |-> 0],
         [countries |-> <<>>, total_countries |-> 0])

\* GET /content/top when psycopg2.connect or the query raises
GetTopContentFails(f) ==
  /\ f # "none"
  /\ DbRead("top_content", f, <<>>, <<>>)

\* GET /servers/performance: one row per edge server (the table edge_servers is empty)
GetServerPerformance(f) == DbRead("performance", f, <<>>, <<>>)

\* ------------------------------------------------------------------- Next
Next ==
  \/ \E p \in Procs, e \in Events : TrackWrite(p, e)
  \/ \E p \in Procs, e \in Events : TrackWriteFails(p, e)
  \/ \E p \in Procs : TrackIncr(p)
  \/ \E p \in Procs : TrackExpire(p)
  \/ \E p \in Procs : TrackRedisFails(p)
  \/ GetRealtimeMetrics
  \/ \E k \in TickSteps : Tick(k)
  \/ \E c \in CleanTasks, D \in Keeps : ncleanups < MaxCleanups /\ CleanupStart(c, D)
  \/ \E c \in CleanTasks, D \in Keeps : ncleanups < MaxCleanups /\ CleanupConnectFails(c, D)
  \/ \E c \in CleanTasks, D \in Keeps : ncleanups < MaxCleanups /\ CleanupExecuteFails(c, D)
  \/ \E c \in CleanTasks : CleanupDelete(c)
  \/ \E c \in CleanTasks : CleanupCommit(c)
  \/ \E c \in CleanTasks : CleanupFails(c)

Spec == Init /\ [][Next]_vars

\* ------------------------------------------- the derivations on drawn stores
\* the counters a daily bucket may hold, the legacy upper-case ones included
CounterFields == {"cache_hit", "cache_HIT", "cache_miss", "cache_MISS"}

\* a bucket with total_requests = t and the counters v (a counter of 0 is absent)
HashOf(t, v) ==
  [f \in {g \in CounterFields : v[g] > 0} \cup (IF t > 0 THEN {"total_requests"} ELSE {}) |->
     IF f = "total_requests" THEN t ELSE v[f]]

CounterHashes == {HashOf(t, v) : t \in 0 .. MaxTotal, v \in [CounterFields -> 0 .. MaxCount]}

LogStatuses == {"HIT", "MISS", "BYPASS"}
StatusCodes == {200, 404}

\* the tables of at most MaxRows rows, ids 1, 2, ... in use
RECURSIVE LogTables(_)
LogTables(n) ==
  IF n = 0 THEN {{}}
  ELSE LogTables(n - 1) \cup
       {t \cup {[id |-> n, day |-> d, cache_status |-> c, status_code |-> sc]} :
          t \in {u \in LogTables(n - 1) : Cardinality(u) = n - 1},
          d \in EventDays, c \in LogStatuses, sc \in StatusCodes}

InitRates ==
  /\ \/ /\ request_logs = InitLogs
        /\ \E h \in CounterHashes : redis = [d \in EventDays |-> IF d = 0 THEN h ELSE EmptyHash]
     \/ /\ request_logs \in LogTables(MaxRows)
        /\ redis = [d \in EventDays |-> EmptyHash]
  /\ now = 0
  /\ expireAt = [d \in EventDays |-> IF KeyExists(d) THEN TTL_DAYS ELSE NoTTL]
  /\ influx = [e \in Events |-> 0]
  /\ txn = {}
  /\ db_connection = "None"
  /\ pc = [p \in Procs |-> "idle"]
  /\ data = [p \in Procs |-> NoData]
  /\ ops = [p \in Procs |-> {}]
  /\ cl = [c \in CleanTasks |-> ClIdle]
  /\ ret = NoRet
  /\ lastIncr = [d \in EventDays |-> Never]
  /\ succ = [e \in Events |-> 0]
  /\ failedDays = {}
  /\ deletedDays = {}
  /\ ncalls = 0
  /\ nfails = 0
  /\ ncleanups = 0
  /\ nticks = 0

NextRates ==
  \/ GetRealtimeMetrics
  \/ \E date \in EventDays : GenerateDailyReport(date)
  \/ \E r \in ContentRows : GetTopContent(<<r>>)

SpecRates == InitRates /\ [][NextRates]_vars

\* ------------------------------------------- cleanup tasks on drawn stores
\* the bucket one successful tracking call for e leaves on an empty cache
TrackedHash(e) ==
  LET h1 == HIncrBy(EmptyHash, IncrField("total_requests", e), IncrAmount("total_requests", e))
      h2 == HIncrBy(h1, IncrField("cache", e), IncrAmount("cache", e))
      h3 == HIncrBy(h2, IncrField("total_bytes", e), IncrAmount("total_bytes", e))
  IN  HIncrBy(h3, IncrField("status", e), IncrAmount("status", e))

NoEvent == [timestamp |-> -1, cache_status |-> "", bytes_sent |-> 0]

\* the clock when the cleanups are scheduled: just after the event days, and so late that
\* the scan of days_to_keep + 30 dates no longer reaches back to all of them
StartNows == {MaxDay + 1, MaxDay + SCAN_EXTRA - 1}

\* the service has tracked at most one event per event day, each with success, and the
\* clock is one of nows
InitDrawn(nows) ==
  /\ now \in nows
  /\ \E tr \in [EventDays -> Events \cup {NoEvent}] :
       /\ \A d \in EventDays : tr[d] = NoEvent \/ BucketDay(tr[d]) = d
       /\ redis = [d \in EventDays |-> IF tr[d] = NoEvent THEN EmptyHash ELSE TrackedHash(tr[d])]
       /\ influx = [e \in Events |-> IF \E d \in EventDays : tr[d] = e THEN 1 ELSE 0]
       /\ succ = [e \in Events |-> IF \E d \in EventDays : tr[d] = e THEN 1 ELSE 0]
       /\ ncalls = Cardinality({d \in EventDays : tr[d] # NoEvent})
  /\ expireAt = [d \in EventDays |-> IF KeyExists(d) THEN now + TTL_DAYS ELSE NoTTL]
  /\ lastIncr = [d \in EventDays |-> IF KeyExists(d) THEN now ELSE Never]
  /\ request_logs = InitLogs
  /\ txn = {}
  /\ db_connection = "None"
  /\ pc = [p \in Procs |-> "idle"]
  /\ data = [p \in Procs |-> NoData]
  /\ ops = [p \in Procs |-> {}]
  /\ cl = [c \in CleanTasks |-> ClIdle]
  /\ ret = NoRet
  /\ failedDays = {}
  /\ deletedDays = {}
  /\ nfails = 0
  /\ ncleanups = 0
  /\ nticks = 0

\* the cleanups are scheduled on old buckets
InitCleanup == InitDrawn(StartNows)

NextCleanup ==
  \/ \E c \in CleanTasks, D \in Keeps : ncleanups < MaxConcurrent /\ CleanupStart(c, D)
  \/ \E c \in CleanTasks, D \in Keeps : ncleanups < MaxConcurrent /\ CleanupConnectFails(c, D)
  \/ \E c \in CleanTasks, D \in Keeps : ncleanups < MaxConcurrent /\ CleanupExecuteFails(c, D)
  \/ \E c \in CleanTasks : CleanupDelete(c)
  \/ \E c \in CleanTasks : CleanupCommit(c)
  \/ \E c \in CleanTasks : CleanupFails(c)

SpecCleanup == InitCleanup /\ [][NextCleanup]_vars

\* ------------------------------------------ read endpoints on drawn stores
InitReads == InitDrawn(EventDays)

NextReads ==
  \/ \E s \in DateStrings, f \in ReportFailures : GetDailyReport(s, f)
  \/ GetRealtimeMetrics
  \/ GetRealtimeMetricsFails
  \/ \E f \in {"none", "query"} : GetTimeseriesMetrics(f)
  \/ \E f \in DbFailures : GetGeographicMetrics(f)
  \/ \E r \in ContentRows : GetTopContent(<<r>>)
  \/ \E f \in DbFailures : GetTopContentFails(f)
  \/ \E f \in DbFailures : GetServerPerformance(f)

SpecReads == InitReads /\ [][NextReads]_vars

\* ============================================================ properties
RECURSIVE SumOver(_, _)
SumOver(f, S) ==
  IF S = {} THEN 0
  ELSE LET x == CHOOSE y \in S : TRUE IN f[x] + SumOver(f, S \ {x})

EventsOn(d) == {e \in Events : BucketDay(e) = d}

\* the number of successful tracking calls for events of day d, and of those with field f
Succeeded(d) == SumOver(succ, EventsOn(d))
SucceededWith(d, f) == SumOver(succ, {e \in EventsOn(d) : CacheField(e.cache_status) = f})
SucceededBytes(d) == SumOver([e \in Events |-> succ[e] * e.bytes_sent], EventsOn(d))

\* no tracking call for an event of day d is in flight
NoInFlight(d) == \A p \in Procs : pc[p] = "idle" \/ BucketDay(data[p]) # d

\* every tracking call for day d so far returned success, and its bucket was never removed
AllSucceeded(d) == NoInFlight(d) /\ d \notin failedDays /\ d \notin deletedDays

\* the step is a store call of a tracking request that raised
TrackCallRaised == nfails' = nfails + 1 /\ cl' = cl /\ ncleanups' = ncleanups

\* C1: when the time-series write of a tracking call raises, the call answers 500 and that
\* step leaves the Counter Cache as it was: no counter incremented, no TTL set
C1_WriteFailureLeavesCache ==
  [][(ret'.op = "track" /\ "write" \notin ret'.ops)
       => (ret'.status = "500" /\ ret'.ops = {} /\ redis' = redis /\ expireAt' = expireAt)]_vars

C1_Witness ==
  /\ ret.op = "track" /\ ret.status = "500" /\ ret.ops = {}
  /\ KeyExists(BucketDay(ret.event))

\* C2: every bucket holds whole events only: as many status_200 and cache_<outcome>
\* increments as total_requests increments
C2_IncrementsAtomic ==
  \A d \in EventDays :
    LET h == redis[d]
    IN  /\ HGet(h, StatusField) = HGet(h, "total_requests")
        /\ HGet(h, "cache_hit") + HGet(h, "cache_miss") + HGet(h, "cache_bypass")
             = HGet(h, "total_requests")
        /\ (HGet(h, "total_requests") = 0) = (HGet(h, "total_bytes") = 0)

\* C3: a tracking call answers success only after the point was appended and the four
\* increments and the TTL reset were made; a store call of it that raises makes it answer 500
C3_SuccessOnlyIfAllDone ==
  [][/\ (ret'.op = "track" /\ ret'.status = "success")
          => (ret'.ops = AllOps /\ influx'[ret'.event] >= 1)
     /\ TrackCallRaised => (ret'.op = "track" /\ ret'.status = "500")]_vars

C3_Witness ==
  /\ ret.op = "track" /\ ret.status = "success" /\ ret.ops = AllOps
  /\ failedDays # {}

\* C4: once every tracking call for a day has succeeded (bucket never removed), the bucket
\* holds total_requests = status_200 = the number of calls, total_bytes = the sum of their
\* bytes_sent, and each cache_<outcome> = the number of calls with that outcome
C4_NoLostUpdates ==
  \A d \in EventDays :
    AllSucceeded(d) =>
      LET h == redis[d]
      IN  /\ HGet(h, "total_requests") = Succeeded(d)
          /\ HGet(h, StatusField) = Succeeded(d)
          /\ HGet(h, "total_bytes") = SucceededBytes(d)
          /\ \A f \in {"cache_hit", "cache_miss", "cache_bypass"} :
               HGet(h, f) = SucceededWith(d, f)

C4_Witness ==
  /\ AllSucceeded(0) /\ Succeeded(0) = 2
  /\ HGet(redis[0], "total_requests") = 2 /\ HGet(redis[0], "total_bytes") = 3

\* C5: a snapshot taken after h hits and m misses (any casing) of today were all tracked
\* with success reports total_requests = h + m, cache_hits = h, cache_misses = m and
\* cache_hit_rate = round(h / (h + m) * 100, 2)
C5_SnapshotCounts ==
  (ret.op = "realtime" /\ ret.day \in EventDays /\ AllSucceeded(ret.day)
     /\ Succeeded(ret.day) > 0
     /\ \A e \in EventsOn(ret.day) : succ[e] > 0 => Lower(e.cache_status) \in {"hit", "miss"})
  => LET hits == SucceededWith(ret.day, "cache_hit")
         misses == SucceededWith(ret.day, "cache_miss")
     IN  /\ ret.out.total_requests = hits + misses
         /\ ret.out.cache_hits = hits
         /\ ret.out.cache_misses = misses
         /\ ret.out.cache_hit_rate = Round2Pct(hits, hits + misses)

C5_Witness ==
  /\ ret.op = "realtime" /\ ret.day = 0 /\ AllSucceeded(0)
  /\ succ[[timestamp |-> 0, cache_status |-> "hit", bytes_sent |-> 2]] = 1
  /\ succ[[timestamp |-> 0, cache_status |-> "MISS", bytes_sent |-> 1]] = 1
  /\ ret.out.cache_hits = 1 /\ ret.out.cache_misses = 1 /\ ret.out.cache_hit_rate = 5000

\* C6: the cache_hit_rate a snapshot returns is between 0 and 100 (hundredths: 0..10000)
C6_HitRateInRange ==
  ret.op = "realtime" => (ret.out.cache_hit_rate >= 0 /\ ret.out.cache_hit_rate <= 10000)

\* C7: no derived rate faults and each is 0 when its denominator is 0: the snapshot's rate
\* at total_requests = 0, a top-content row's rate at request_count = 0, the daily report's
\* cache_hit_rate at hits + misses = 0 and error_rate at total_requests = 0
C7_RatesZeroOnZeroDenominator ==
  /\ ret.op = "realtime" =>
       /\ ret.out.cache_hit_rate # ZeroDivisionError
       /\ ret.out.total_requests = 0 => ret.out.cache_hit_rate = 0
  /\ ret.op = "top_content" =>
       /\ Len(ret.content) = Len(ret.results)
       /\ \A k \in DOMAIN ret.content :
            ret.content[k].request_count = 0 => ret.content[k].cache_hit_rate = 0
  /\ ret.op = "daily_report" =>
       /\ "error" \notin DOMAIN ret.report
       /\ LET sm == ret.report.summary
          IN  /\ sm.cache_hits + sm.cache_misses = 0 => sm.cache_hit_rate = 0
              /\ sm.total_requests = 0 => sm.error_rate = 0

C7_Witness ==
  /\ ret.op = "daily_report"
  /\ "summary" \in DOMAIN ret.report
  /\ ret.report.summary.total_requests = 0
  /\ ret.report.summary.error_rate = 0 /\ ret.report.summary.cache_hit_rate = 0

\* C8: a snapshot of a bucket with total_requests > 0 and none of the four cache counters
\* reports cache_misses = max(1, total_requests // 10) and cache_hits = total_requests -
\* cache_misses, so hits + misses = total_requests and hits >= 0
C8_FallbackEstimate ==
  (ret.op = "realtime" /\ ret.out.total_requests > 0
     /\ (DOMAIN ret.metrics) \cap CounterFields = {})
  => LET t == ret.out.total_requests
     IN  /\ ret.out.cache_misses = (IF t >= 10 THEN t \div 10 ELSE 1)
         /\ ret.out.cache_hits = t - ret.out.cache_misses
         /\ ret.out.cache_hits + ret.out.cache_misses = t
         /\ ret.out.cache_hits >= 0

C8_Witness ==
  /\ ret.op = "realtime" /\ (DOMAIN ret.metrics) \cap CounterFields = {}
  /\ ret.out.total_requests = 25 /\ ret.out.cache_misses = 2 /\ ret.out.cache_hits = 23

\* C9: when every event tracked for today carried a hit or miss outcome, a snapshot reports
\* the sums of the cache counters it read, never the estimate
C9_NoEstimateWithOutcomes ==
  (ret.op = "realtime"
     /\ \A e \in Events :
          (BucketDay(e) = ret.day /\ influx[e] > 0) => Lower(e.cache_status) \in {"hit", "miss"})
  => /\ ret.out.cache_hits = CacheHits(ret.metrics)
     /\ ret.out.cache_misses = CacheMisses(ret.metrics)

\* C10: a bucket left by the tracking calls that incremented it (none still in flight)
\* expires no earlier than 7 days after its most recent increment
C10_TtlFromLastIncrement ==
  \A d \in EventDays :
    (KeyExists(d) /\ NoInFlight(d) /\ lastIncr[d] # Never)
    => (expireAt[d] # NoTTL /\ expireAt[d] >= lastIncr[d] + TTL_DAYS)

\* C11: every bucket left behind by the tracking calls that touched it (none still in
\* flight) carries an expiry, so it is removed once 7 days pass without an increment; also
\* a bucket created by a call that then failed
C11_BucketsCarryExpiry ==
  \A d \in EventDays : (KeyExists(d) /\ NoInFlight(d)) => expireAt[d] # NoTTL

\* the step just taken ended a cleanup task by raising, having run its DELETE
CleanupRaised == ret.op = "cleanup" /\ ret.result = "raised"

\* the step just taken ended a cleanup task with the counts
CleanupDone == ret.op = "cleanup" /\ ret.result = "done"

\* C12: when a cleanup raises after its relational deletion, the deletion is rolled back:
\* every row its DELETE removed is in the Historical Log Store again, which is as it was
\* when the cleanup started
C12_FailureRollsBackRows ==
  CleanupRaised => (ret.rows \subseteq request_logs /\ txn = {})

\* C13: the row deletions of a cleanup are committed only once it has succeeded: not while
\* it runs, never when it raises, and always when it returns its counts; also when cleanup
\* tasks interleave
C13_CommitOnlyOnSuccess ==
  /\ \A c \in CleanTasks : cl[c].pc # "idle" => cl[c].rows \subseteq request_logs
  /\ CleanupRaised => ret.rows \subseteq request_logs
  /\ CleanupDone => ret.rows \cap request_logs = {}

\* C14: after a cleanup with days_to_keep = D has returned its counts, no bucket remains for
\* a date before its cutoff date (the clock when it started, less D days)
C14_NoOldBucketLeft ==
  CleanupDone =>
    \A d \in EventDays : d < ret.t0 - ret.days_to_keep => ~KeyExists(d)

\* C15: a cleanup that raises has changed neither store: no bucket was removed by the run
\* and no row it deleted is missing
C15_FailedCleanupChangesNothing ==
  CleanupRaised => (ret.removed = {} /\ ret.rows \subseteq request_logs)

\* C19: a cleanup with days_to_keep = D that returns its counts asked for the deletion of
\* exactly the D + 30 keys of the dates cutoff - i, i = 0 .. D + 29, cutoff being the clock
\* at its start less D days, and deleted_keys counts those that existed when deleted
C19_ScansExactlyWindowPlus30 ==
  CleanupDone =>
    /\ ret.keys = {(ret.t0 - ret.days_to_keep) - i : i \in 0 .. (ret.days_to_keep + 29)}
    /\ Cardinality(ret.keys) = ret.days_to_keep + 30
    /\ ret.deleted_keys = Cardinality(ret.removed)

C19_Witness ==
  /\ CleanupDone /\ ret.days_to_keep = 0 /\ ret.deleted_keys = 1
  /\ ret.removed = {MaxDay} /\ KeyExists(0)
  /\ Cardinality(ret.keys) = 30

\* the date parameters of the model that are a calendar date written year-month-day
WellFormedDates ==
  { <<"2", "0", "2", "4", "-", "0", "1", "-", "0", "1">>,
    <<"2", "0", "2", "4", "-", "0", "1", "-", "0", "2">>,
    <<"2", "0", "2", "4", "-", "1", "-", "2">>,
    <<"2", "0", "2", "4", "-", "0", "2", "-", "2", "9">> }

\* C16: a daily-report request whose date is not a calendar date written year-month-day is
\* answered 400 (never 500) without the report operation being invoked: no store is
\* queried and no connection opened
C16_InvalidDateIsClientError ==
  [][(ret'.op = "get_daily_report" /\ ret'.date \notin WellFormedDates)
       => (ret'.status = 400 /\ ~ret'.engine /\ stores' = stores
           /\ db_connection' = db_connection /\ nfails' = nfails)]_vars

C16_Witness ==
  /\ ret.op = "get_daily_report" /\ ret.status = 400 /\ ~ret.engine
  /\ ret.date = <<"2", "0", "2", "4", "-", "1", "3", "-", "4", "0">>
  /\ db_connection = "None"

\* C17: the daily-report operation never raises to its caller: when a call to the log
\* store fails (the connection or one of the three queries) it returns the date and an
\* error indicator only, otherwise the full report
C17_ReportNeverThrows ==
  (ret.op = "get_daily_report" /\ ret.engine)
  => /\ ~ret.raised
     /\ ret.failure # "none" => DOMAIN ret.report = {"date", "error"}
     /\ ret.failure = "none" => {"date", "summary", "status_codes"} \subseteq DOMAIN ret.report

\* C18: no read endpoint other than the cleanup answers 500: when its store fails the
\* operation returns an empty or degraded result
C18_ReadsAreFailSoft ==
  ret.op = "read" => (~ret.raised /\ ret.status # 500)

\* the step is a store call of a tracking call for the event e, or ends one
TrackStepFor(e) ==
  \/ ret'.op = "track" /\ ret'.event = e
  \/ \E p \in Procs : pc'[p] \notin {pc[p], "idle"} /\ data'[p] = e

\* C20: a step of a tracking call changes no bucket but the one of the calendar date of the
\* event's own timestamp (counters and TTL of every other bucket are as before), appends at
\* most one point for that event to the time-series sink, and changes nothing else: not
\* the log store, its transaction or connection, nor a cleanup task
C20_TrackTouchesOwnBucketOnly ==
  [][\A e \in Events :
       TrackStepFor(e) =>
         /\ \A d \in EventDays :
              d # e.timestamp => (redis'[d] = redis[d] /\ expireAt'[d] = expireAt[d])
         /\ \A x \in Events \ {e} : influx'[x] = influx[x]
         /\ influx'[e] \in {influx[e], influx[e] + 1}
         /\ request_logs' = request_logs /\ txn' = txn /\ db_connection' = db_connection
         /\ cl' = cl /\ now' = now]_vars

\* a successful call for an event of day 0 that arrived on a later day: the bucket of day 0
\* holds it, with the TTL counted from the arrival, and the arrival date has no bucket
C20_Witness ==
  /\ ret.op = "track" /\ ret.status = "success" /\ ret.event.timestamp = 0
  /\ now > 0 /\ lastIncr[0] = now /\ KeyExists(0) /\ expireAt[0] = now + TTL_DAYS
  /\ \A d \in EventDays \ {0} : ~KeyExists(d)

\* the number of time-series points whose timestamp falls on day d
PointsOn(d) == SumOver(influx, EventsOn(d))

\* C21: in every reachable state and for every date, the bucket's total_requests is at most
\* the number of time-series points of that date: no event is counted without its point
C21_CountedEventsHavePoints ==
  \A d \in EventDays : HGet(redis[d], "total_requests") <= PointsOn(d)

\* the bucket of day 0 was removed and re-created: it counts one event, the sink holds two
C21_Witness ==
  /\ HGet(redis[0], "total_requests") = 1 /\ PointsOn(0) = 2
  /\ 0 \in deletedDays /\ NoInFlight(0)

====
